---- MODULE Spec2Model ----
(***************************************************************************)
(* A model of src/src/data_structures/linkedlist.rs: the doubly-linked     *)
(* LinkedList<T>, its Node<T>/Link<T> substrate and LinkedListIter<T>.     *)
(*                                                                         *)
(* Every Rc<RefCell<Box<Node<T>>>> allocation is a cell of `heap`, named   *)
(* by its index (allocation order); a Link<T> is None or such an index.    *)
(* The Rc<T> payload of a node is allocated together with the node         *)
(* (Node::new), so a payload handle is named by the index of its node.     *)
(* A panic (Option::unwrap on None) unwinds the calling thread: the fields *)
(* keep what was assigned before the panicking statement and no further    *)
(* call is made.                                                           *)
(* A node allocation lives as long as a strong reference to it lives: the  *)
(* container's head and tail while the container exists, the cursor of the *)
(* iterator, and the prev and next fields of living nodes.                 *)
(***************************************************************************)
EXTENDS Integers, Sequences, FiniteSets, TLC

\* Bounds of the exploration.
MaxOps == 4        \* number of mutator calls (push, push_front, pop, pop_front) in a run
NumValues == 2     \* payloads are drawn from 1..NumValues

Values == 1..NumValues

\* Link<T>: None, or the index of a node allocation.
None == 0

VARIABLES
    list,       \* the LinkedList<T> value: [head, tail, len]
    owned,      \* TRUE while the LinkedList<T> value exists (not yet moved out or dropped)
    heap,       \* the node allocations, in allocation order: Seq([data, prev, next])
    it,         \* the LinkedListIter<T> last obtained from iter(): [live, cursor]
    ret,        \* the outcome of the last call: [op, tag, h]
    panicked,   \* TRUE once a call has panicked
    calls       \* the mutator calls made so far, with their outcomes: Seq([op, arg, ret])

vars == <<list, owned, heap, it, ret, panicked, calls>>

----------------------------------------------------------------------------
\* Outcomes of a call.
Unit(op) == [op |-> op, tag |-> "unit", h |-> None]
RetNone(op) == [op |-> op, tag |-> "none", h |-> None]
RetSome(op, h) == [op |-> op, tag |-> "some", h |-> h]
Panic(op) == [op |-> op, tag |-> "panic", h |-> None]

\* A step of a method: the container and heap it leaves, and its outcome.
Done(self, hp, r) == [self |-> self, heap |-> hp, ret |-> r]

----------------------------------------------------------------------------
\* impl Node

\* Node::new
Node_new(data) == [data |-> data, prev |-> None, next |-> None]

\* Node::set_prev, on the node behind link `l` (l # None)
set_prev(hp, l, other) == [hp EXCEPT ![l].prev = other]

\* Node::set_next, on the node behind link `l` (l # None)
set_next(hp, l, other) == [hp EXCEPT ![l].next = other]

\* Node::get_prev
get_prev(hp, l) == hp[l].prev

\* Node::get_next
get_next(hp, l) == hp[l].next

\* Node::get_data: a clone of the node's Rc<T>, i.e. a handle to its payload
get_data(hp, l) == l

\* Node::new_link: allocates the node; the new link is the last index of the heap
new_link(hp, data) == Append(hp, Node_new(data))

\* The value a payload handle denotes.
Deref(hp, h) == hp[h].data

----------------------------------------------------------------------------
\* impl LinkedList

\* LinkedList::new
new == [head |-> None, tail |-> None, len |-> 0]

\* LinkedList::len
len(self) == self.len

\* LinkedList::is_empty
is_empty(self) == self.head = None /\ self.tail = None

\* push that also moves head to the new node (line 30 repeated on the general path).
push_MovesHead(self, hp, data) ==
    LET hp1 == new_link(hp, data)
        new_node == Len(hp1)
        s1 == [self EXCEPT !.len = self.len + 1]
    IN  IF s1.head = None /\ s1.tail = None
        THEN Done([s1 EXCEPT !.head = new_node, !.tail = new_node], hp1, Unit("push"))
        ELSE LET hp2 == set_next(hp1, s1.tail, new_node)
                 hp3 == set_prev(hp2, new_node, s1.tail)
             IN  Done([s1 EXCEPT !.head = new_node, !.tail = new_node], hp3, Unit("push"))

\* push that stores the new payload in the old tail's node and the old tail's
\* payload in the new node (the payloads swapped while linking).
push_SwapsData(self, hp, data) ==
    LET hp1 == new_link(hp, data)
        new_node == Len(hp1)
        s1 == [self EXCEPT !.len = self.len + 1]
    IN  IF s1.head = None /\ s1.tail = None
        THEN Done([s1 EXCEPT !.head = new_node, !.tail = new_node], hp1, Unit("push"))
        ELSE LET hp2 == set_next(hp1, s1.tail, new_node)
                 hp3 == set_prev(hp2, new_node, s1.tail)
                 hp4 == [hp3 EXCEPT ![new_node].data = hp3[s1.tail].data,
                                    ![s1.tail].data = data]
             IN  Done([s1 EXCEPT !.tail = new_node], hp4, Unit("push"))

\* push without the back link from the new node to the old tail (line 36 left out).
push_NoSetPrev(self, hp, data) ==
    LET hp1 == new_link(hp, data)
        new_node == Len(hp1)
        s1 == [self EXCEPT !.len = self.len + 1]
    IN  IF s1.head = None /\ s1.tail = None
        THEN Done([s1 EXCEPT !.head = new_node, !.tail = new_node], hp1, Unit("push"))
        ELSE LET hp2 == set_next(hp1, s1.tail, new_node)
             IN  Done([s1 EXCEPT !.tail = new_node], hp2, Unit("push"))

\* push without the link from the old tail to the new node (line 35 left out).
push_NoSetNext(self, hp, data) ==
    LET hp1 == new_link(hp, data)
        new_node == Len(hp1)
        s1 == [self EXCEPT !.len = self.len + 1]
    IN  IF s1.head = None /\ s1.tail = None
        THEN Done([s1 EXCEPT !.head = new_node, !.tail = new_node], hp1, Unit("push"))
        ELSE LET hp3 == set_prev(hp1, new_node, s1.tail)
             IN  Done([s1 EXCEPT !.tail = new_node], hp3, Unit("push"))

\* LinkedList::push
push(self, hp, data) ==
    LET hp1 == new_link(hp, data)
        new_node == Len(hp1)
        s1 == [self EXCEPT !.len = self.len + 1]
    IN  IF s1.head = None /\ s1.tail = None
        THEN Done([s1 EXCEPT !.head = new_node, !.tail = new_node], hp1, Unit("push"))
        ELSE IF s1.tail = None
        THEN Done(s1, hp1, Panic("push"))                    \* line 35: unwrap on None
        ELSE LET hp2 == set_next(hp1, s1.tail, new_node)
                 hp3 == set_prev(hp2, new_node, s1.tail)
             IN  Done([s1 EXCEPT !.tail = new_node], hp3, Unit("push"))

\* push_front without the increment of the counter (line 44 left out).
push_front_NoCount(self, hp, data) ==
    LET hp1 == new_link(hp, data)
        new_node == Len(hp1)
        s1 == self
    IN  IF s1.head = None /\ s1.tail = None
        THEN Done([s1 EXCEPT !.head = new_node, !.tail = new_node], hp1, Unit("push_front"))
        ELSE LET hp2 == set_prev(hp1, s1.head, new_node)
                 hp3 == set_next(hp2, new_node, s1.head)
             IN  Done([s1 EXCEPT !.head = new_node], hp3, Unit("push_front"))

\* push_front without the move of head to the new node (line 54 left out).
push_front_KeepHead(self, hp, data) ==
    LET hp1 == new_link(hp, data)
        new_node == Len(hp1)
        s1 == [self EXCEPT !.len = self.len + 1]
    IN  IF s1.head = None /\ s1.tail = None
        THEN Done([s1 EXCEPT !.head = new_node, !.tail = new_node], hp1, Unit("push_front"))
        ELSE LET hp2 == set_prev(hp1, s1.head, new_node)
                 hp3 == set_next(hp2, new_node, s1.head)
             IN  Done(s1, hp3, Unit("push_front"))

\* LinkedList::push_front
push_front(self, hp, data) ==
    LET hp1 == new_link(hp, data)
        new_node == Len(hp1)
        s1 == [self EXCEPT !.len = self.len + 1]
    IN  IF s1.head = None /\ s1.tail = None
        THEN Done([s1 EXCEPT !.head = new_node, !.tail = new_node], hp1, Unit("push_front"))
        ELSE IF s1.head = None
        THEN Done(s1, hp1, Panic("push_front"))              \* line 52: unwrap on None
        ELSE LET hp2 == set_prev(hp1, s1.head, new_node)
                 hp3 == set_next(hp2, new_node, s1.head)
             IN  Done([s1 EXCEPT !.head = new_node], hp3, Unit("push_front"))

\* pop without the reset of the new tail's next link (line 67 without set_next).
pop_KeepNext(self, hp) ==
    IF self.head = None /\ self.tail = None
    THEN Done(self, hp, RetNone("pop"))
    ELSE LET old_tail == self.tail
         IN  IF old_tail = None
             THEN Done(self, hp, Panic("pop"))
             ELSE LET s1 == [self EXCEPT !.tail = get_prev(hp, old_tail)]
                  IN  IF s1.tail = None
                      THEN Done(s1, hp, Panic("pop"))
                      ELSE Done([s1 EXCEPT !.len = s1.len - 1], hp,
                                RetSome("pop", get_data(hp, old_tail)))

\* pop without the empty-list case (lines 61-63 left out).
pop_NoEmptyCase(self, hp) ==
    LET old_tail == self.tail
    IN  IF old_tail = None
        THEN Done(self, hp, Panic("pop"))
        ELSE LET s1 == [self EXCEPT !.tail = get_prev(hp, old_tail)]
             IN  IF s1.tail = None
                 THEN Done(s1, hp, Panic("pop"))
                 ELSE LET hp1 == set_next(hp, s1.tail, None)
                          old_data == get_data(hp1, old_tail)
                      IN  Done([s1 EXCEPT !.len = s1.len - 1], hp1,
                               RetSome("pop", old_data))

\* LinkedList::pop
pop(self, hp) ==
    IF self.head = None /\ self.tail = None
    THEN Done(self, hp, RetNone("pop"))
    ELSE LET old_tail == self.tail
         IN  IF old_tail = None
             THEN Done(self, hp, Panic("pop"))               \* line 66: unwrap on None
             ELSE LET s1 == [self EXCEPT !.tail = get_prev(hp, old_tail)]
                  IN  IF s1.tail = None
                      THEN Done(s1, hp, Panic("pop"))        \* line 67: unwrap on None
                      ELSE LET hp1 == set_next(hp, s1.tail, None)
                               old_data == get_data(hp1, old_tail)
                           IN  Done([s1 EXCEPT !.len = s1.len - 1], hp1,
                                    RetSome("pop", old_data))

\* LinkedList::pop_front
pop_front(self, hp) ==
    IF self.head = None /\ self.tail = None
    THEN Done(self, hp, RetNone("pop_front"))
    ELSE LET old_head == self.head
         IN  IF old_head = None
             THEN Done(self, hp, Panic("pop_front"))         \* line 83: unwrap on None
             ELSE LET s1 == [self EXCEPT !.head = get_next(hp, old_head)]
                  IN  IF s1.head = None
                      THEN Done(s1, hp, Panic("pop_front"))  \* line 84: unwrap on None
                      ELSE LET hp1 == set_prev(hp, s1.head, None)
                               old_data == get_data(hp1, old_head)
                           IN  Done([s1 EXCEPT !.len = s1.len - 1], hp1,
                                    RetSome("pop_front", old_data))

----------------------------------------------------------------------------
\* LinkedListIter

\* LinkedListIter::new
LinkedListIter_new(cursor) == [live |-> TRUE, cursor |-> cursor]

\* LinkedList::iter
iter(self) == LinkedListIter_new(self.head)

\* next without the exhaustion check (line 194 left out): unwrap on a None cursor.
next_NoExhaustedCase(i, hp) ==
    IF i.cursor = None
    THEN [it |-> i, ret |-> Panic("next")]
    ELSE LET yield_data == get_data(hp, i.cursor)
             next_node == get_next(hp, i.cursor)
         IN  [it |-> [i EXCEPT !.cursor = next_node], ret |-> RetSome("next", yield_data)]

\* LinkedListIter::next: the iterator it leaves and what it yields
next(i, hp) ==
    IF i.cursor = None
    THEN [it |-> i, ret |-> RetNone("next")]
    ELSE LET yield_data == get_data(hp, i.cursor)
             next_node == get_next(hp, i.cursor)
         IN  [it |-> [i EXCEPT !.cursor = next_node], ret |-> RetSome("next", yield_data)]

\* IntoIterator for LinkedList: into_iter
into_iter(self) == iter(self)

\* The handles a fresh iterator over `self` yields until it returns None
\* (iter().collect()); `fuel` bounds the walk by the number of allocations.
RECURSIVE Drain(_, _, _)
Drain(i, hp, fuel) ==
    IF fuel = 0 \/ next(i, hp).ret.tag = "none"
    THEN <<>>
    ELSE <<next(i, hp).ret.h>> \o Drain(next(i, hp).it, hp, fuel - 1)

Collect(self, hp) == Drain(iter(self), hp, Len(hp) + 1)

\* The handles the iterator `i` yields from now on until it returns None.
Remaining(i, hp) == Drain(i, hp, Len(hp) + 1)

\* The payload values of a sequence of handles.
ValuesOf(hs, hp) == [k \in 1..Len(hs) |-> Deref(hp, hs[k])]

\* iter().map(|val| *val).collect::<Vec<T>>(), as in the tests
Contents(self, hp) == ValuesOf(Collect(self, hp), hp)

----------------------------------------------------------------------------
\* Ownership: Link<T> = Option<Rc<RefCell<Box<Node<T>>>>>, a strong reference.

\* The strong references a node holds, with the next links weak instead.
StrongRefs_NextWeak(hp, n) == {hp[n].prev} \ {None}

\* The strong references a node holds: its prev and its next link.
StrongRefs(hp, n) == {hp[n].prev, hp[n].next} \ {None}

\* The strong references held outside the nodes: head and tail of an existing
\* container and the cursor of an existing iterator.
Roots(self, own, i) ==
    ((IF own THEN {self.head, self.tail} ELSE {}) \cup (IF i.live THEN {i.cursor} ELSE {}))
        \ {None}

\* Rc::drop: a node whose strong count is 0 is freed, and the links it held are
\* dropped with it; `S` are the nodes not yet freed.
RECURSIVE Sweep(_, _, _)
Sweep(S, roots, hp) ==
    LET unreferenced == {n \in S : n \notin roots /\ \A m \in S : n \notin StrongRefs(hp, m)}
    IN  IF unreferenced = {} THEN S ELSE Sweep(S \ unreferenced, roots, hp)

\* The node allocations that have not been freed.
Alive(self, own, i, hp) == Sweep(1..Len(hp), Roots(self, own, i), hp)

----------------------------------------------------------------------------
\* The state machine: a client making calls on one container.

Init ==
    /\ list = new
    /\ owned = TRUE
    /\ heap = <<>>
    /\ it = [live |-> FALSE, cursor |-> None]
    /\ ret = Unit("new")
    /\ panicked = FALSE
    /\ calls = <<>>

\* A mutator call: its effect on the container, the heap and the outcome.
Apply(r, op, arg) ==
    /\ list' = r.self
    /\ heap' = r.heap
    /\ ret' = r.ret
    /\ panicked' = (r.ret.tag = "panic")
    /\ calls' = Append(calls, [op |-> op, arg |-> arg, ret |-> r.ret])
    /\ UNCHANGED <<it, owned>>

CallPush ==
    /\ ~panicked
    /\ owned
    /\ Len(calls) < MaxOps
    /\ \E v \in Values : Apply(push(list, heap, v), "push", v)

CallPushFront ==
    /\ ~panicked
    /\ owned
    /\ Len(calls) < MaxOps
    /\ \E v \in Values : Apply(push_front(list, heap, v), "push_front", v)

CallPop ==
    /\ ~panicked
    /\ owned
    /\ Len(calls) < MaxOps
    /\ Apply(pop(list, heap), "pop", None)

CallPopFront ==
    /\ ~panicked
    /\ owned
    /\ Len(calls) < MaxOps
    /\ Apply(pop_front(list, heap), "pop_front", None)

CallIter ==
    /\ ~panicked
    /\ owned
    /\ it' = iter(list)
    /\ ret' = Unit("iter")
    /\ UNCHANGED <<list, owned, heap, panicked, calls>>

\* next that also clears the back link of the node it moves on to.
CallNext_Detaches ==
    /\ ~panicked
    /\ it.live
    /\ it' = next(it, heap).it
    /\ ret' = next(it, heap).ret
    /\ heap' = IF it'.cursor = None THEN heap ELSE set_prev(heap, it'.cursor, None)
    /\ UNCHANGED <<list, owned, panicked, calls>>

CallNext ==
    /\ ~panicked
    /\ it.live
    /\ it' = next(it, heap).it
    /\ ret' = next(it, heap).ret
    /\ UNCHANGED <<list, owned, heap, panicked, calls>>

\* `for x in list`: into_iter takes the container by value; the iterator is made
\* and the container is dropped when into_iter returns.
CallIntoIter ==
    /\ ~panicked
    /\ owned
    /\ it' = into_iter(list)
    /\ owned' = FALSE
    /\ ret' = Unit("into_iter")
    /\ UNCHANGED <<list, heap, panicked, calls>>

\* The container goes out of scope: its head and tail links are dropped.
DropList ==
    /\ ~panicked
    /\ owned
    /\ owned' = FALSE
    /\ ret' = Unit("drop")
    /\ UNCHANGED <<list, heap, it, panicked, calls>>

\* The iterator goes out of scope: its cursor link is dropped.
DropIter ==
    /\ ~panicked
    /\ it.live
    /\ it' = [live |-> FALSE, cursor |-> None]
    /\ ret' = Unit("drop_iter")
    /\ UNCHANGED <<list, owned, heap, panicked, calls>>

Next ==
    \/ CallPush
    \/ CallPushFront
    \/ CallPop
    \/ CallPopFront
    \/ CallIter
    \/ CallNext
    \/ CallIntoIter
    \/ DropList
    \/ DropIter

Spec == Init /\ [][Next]_vars

----------------------------------------------------------------------------
TypeOK ==
    /\ list.head \in 0..Len(heap)
    /\ list.tail \in 0..Len(heap)
    /\ list.len \in Nat
    /\ it.cursor \in 0..Len(heap)
    /\ panicked \in BOOLEAN
    /\ owned \in BOOLEAN
    /\ Len(calls) <= MaxOps

----------------------------------------------------------------------------
\* Vocabulary of the properties.

\* This step is a call of the mutator `op`.
Called(op) == Len(calls') = Len(calls) + 1 /\ calls'[Len(calls')].op = op

\* The last element of a non-empty sequence, and the sequence without it.
Last(s) == s[Len(s)]
Front(s) == SubSeq(s, 1, Len(s) - 1)

\* The sequence in reverse.
Reverse(s) == [k \in 1..Len(s) |-> s[Len(s) + 1 - k]]

\* The first n calls were all calls of a mutator in `ops`.
AllOps(n, ops) == \A k \in 1..n : calls[k].op \in ops

\* The calls from position a to position b were all calls of a mutator in `ops`.
RangeOps(a, b, ops) == \A k \in a..b : calls[k].op \in ops

\* The arguments of the first n calls.
Args(n) == [k \in 1..n |-> calls[k].arg]

\* The container holds exactly one element.
Singleton == list.head # None /\ list.head = list.tail /\ list.len = 1

----------------------------------------------------------------------------
\* C1: no call of push, push_front, pop, pop_front, iter or next ever panics,
\* pop and pop_front on a one-element container included.
C1_NoPanic == ~panicked

\* C2: pop, and likewise pop_front, on a container holding exactly one element
\* returns Some(handle to that element) and leaves head = None, tail = None, len = 0.
C2_PopOnlyElement ==
    [][(Singleton /\ (Called("pop") \/ Called("pop_front")))
        => /\ ret' = RetSome(ret'.op, list.head)
           /\ list'.head = None
           /\ list'.tail = None
           /\ len(list') = 0]_vars

\* C3: in every state, head is None iff tail is None iff len is 0, and
\* is_empty() is true exactly when len() = 0.
C3_EmptyConsistent ==
    /\ (list.head = None) <=> (list.tail = None)
    /\ (list.tail = None) <=> (list.len = 0)
    /\ is_empty(list) <=> (len(list) = 0)

\* C4: the container refines a sequence S, read off by iteration: S starts empty;
\* push(v) appends v, push_front(v) prepends v, pop() on a non-empty S removes and
\* returns its last element, pop_front() on a non-empty S removes and returns its
\* first element; after every call len() is the length of S.
C4_Abstract(self, hp) == Contents(self, hp)

C4_StepRefines ==
    LET S == C4_Abstract(list, heap)
        T == C4_Abstract(list', heap')
        c == calls'[Len(calls')]
    IN  /\ Called("push") => T = Append(S, c.arg)
        /\ Called("push_front") => T = <<c.arg>> \o S
        /\ (Called("pop") /\ S # <<>>) =>
              /\ T = Front(S)
              /\ ret'.tag = "some" /\ Deref(heap', ret'.h) = Last(S)
        /\ (Called("pop_front") /\ S # <<>>) =>
              /\ T = Tail(S)
              /\ ret'.tag = "some" /\ Deref(heap', ret'.h) = Head(S)
        /\ (Len(calls') = Len(calls) + 1) => len(list') = Len(T)

C4_Refinement ==
    /\ (calls = <<>> => C4_Abstract(list, heap) = <<>> /\ len(list) = 0)
    /\ [][C4_StepRefines]_vars

\* C5: after N calls of push, and no other mutator call, on a new container,
\* len() is N and iter() yields the N pushed values in insertion order.
C5_PushOrder ==
    AllOps(Len(calls), {"push"}) =>
        /\ len(list) = Len(calls)
        /\ Contents(list, heap) = Args(Len(calls))

\* C5 witness: three pushes whose values are not all equal, and nothing else.
C5_Witness ==
    /\ Len(calls) >= 3
    /\ AllOps(Len(calls), {"push"})
    /\ calls[1].arg # calls[2].arg

\* C6: after N calls of push_front, and no other mutator call, on a new container,
\* len() is N and iter() yields the N values in the reverse of insertion order.
C6_PushFrontOrder ==
    AllOps(Len(calls), {"push_front"}) =>
        /\ len(list) = Len(calls)
        /\ Contents(list, heap) = Reverse(Args(Len(calls)))

\* C6 witness: three push_front calls whose values are not all equal, and nothing else.
C6_Witness ==
    /\ Len(calls) >= 3
    /\ AllOps(Len(calls), {"push_front"})
    /\ calls[1].arg # calls[2].arg

\* The calls so far are n pushes (push or push_front) followed by k removals
\* (pop or pop_front).
PushesThenPops(n, k) ==
    /\ Len(calls) = n + k
    /\ RangeOps(1, n, {"push", "push_front"})
    /\ RangeOps(n + 1, n + k, {"pop", "pop_front"})

\* C7: after N pushes followed by N removals, in any mix of ends, the container
\* is empty: is_empty() is true and len() is 0.
C7_DrainedIsEmpty ==
    \A n \in 0..MaxOps :
        PushesThenPops(n, n) => (~panicked /\ is_empty(list) /\ len(list) = 0)

\* The j-th removal of the run returned a handle to the value `v`.
Returned(j, v) == calls[j].ret.tag = "some" /\ Deref(heap, calls[j].ret.h) = v

\* C8: after n calls of push, n calls of pop return the pushed values last to
\* first; after n calls of push_front, n calls of pop_front return them last to first.
C8_RoundTrip ==
    \A n \in 0..MaxOps :
        /\ (Len(calls) = 2 * n /\ RangeOps(1, n, {"push"}) /\ RangeOps(n + 1, 2 * n, {"pop"}))
              => \A j \in 1..n : Returned(n + j, calls[n + 1 - j].arg)
        /\ (Len(calls) = 2 * n /\ RangeOps(1, n, {"push_front"})
                               /\ RangeOps(n + 1, 2 * n, {"pop_front"}))
              => \A j \in 1..n : Returned(n + j, calls[n + 1 - j].arg)

\* C9: pop and pop_front on an empty container return None and leave head, tail
\* and len as they were, None, None and 0, however often they are repeated.
C9_PopEmpty ==
    [][(is_empty(list) /\ (Called("pop") \/ Called("pop_front")))
        => /\ ret' = RetNone(ret'.op)
           /\ list' = list
           /\ list'.head = None /\ list'.tail = None /\ list'.len = 0]_vars

\* C9 witness: pop and pop_front have both just been answered None, one after the other.
C9_Witness ==
    /\ Len(calls) >= 2
    /\ calls[Len(calls)].op = "pop_front" /\ calls[Len(calls)].ret.tag = "none"
    /\ calls[Len(calls) - 1].op = "pop" /\ calls[Len(calls) - 1].ret.tag = "none"
    /\ is_empty(list)

\* C10: in every state the len counter is the number of nodes met by following
\* next from head to None, the number of times a fresh iterator returns Some.
C10_LenCountsChain == len(list) = Len(Collect(list, heap))

----------------------------------------------------------------------------
\* The nodes of the chain: those met by following next from head to None.
ChainNodes(self, hp) == {Collect(self, hp)[k] : k \in 1..Len(Collect(self, hp))}

\* This step is a call of next on the iterator.
CalledNext == ret'.op = "next" /\ Len(calls') = Len(calls) /\ it.live

\* This step is a call of iter or into_iter: it makes a new iterator.
MadeIterator == ret'.op \in {"iter", "into_iter"}

\* This step drops the iterator.
DroppedIterator == ret'.op = "drop_iter" /\ ~it'.live

\* C11: the iterator is fused: once next() has returned None on an iterator, its
\* cursor is None; the cursor of that iterator then stays None, for as long as the
\* iterator exists, across every call made on the container, pushes included, and
\* every later next() returns None.
C11_Fused ==
    [][/\ (CalledNext /\ ret'.tag = "none") => it'.cursor = None
       /\ (it.live /\ it.cursor = None /\ ~MadeIterator /\ ~DroppedIterator) =>
             /\ it' = it
             /\ CalledNext => ret' = RetNone("next")]_vars

\* C11 witness: next() has returned None on an exhausted iterator while the
\* container holds elements, the last of them pushed by the latest mutator call.
C11_Witness ==
    /\ it.live /\ it.cursor = None
    /\ ret = RetNone("next")
    /\ list.head # None
    /\ Len(calls) >= 1 /\ calls[Len(calls)].op = "push"

\* C15: back links are symmetric in every state: for every node n of the chain
\* with n.next = Some(m), m.prev = Some(n); and for every node m of the chain with
\* m.prev = Some(n), n.next = Some(m).
C15_BackLinks ==
    \A n \in ChainNodes(list, heap) :
        /\ heap[n].next # None => heap[heap[n].next].prev = n
        /\ heap[n].prev # None => heap[heap[n].prev].next = n

\* C15 witness: a chain of at least two nodes, built from both ends, after a removal.
C15_Witness ==
    /\ Cardinality(ChainNodes(list, heap)) >= 2
    /\ \E j \in 1..Len(calls) : calls[j].ret.tag = "some"
    /\ \E j \in 1..Len(calls) : calls[j].op = "push_front"
    /\ \E j \in 1..Len(calls) : calls[j].op = "push"

\* C16: in every state with a non-empty container, the head node's prev is None
\* and the tail node's next is None; pop and pop_front leave the new end so.
C16_EndsClosed ==
    /\ list.head # None => heap[list.head].prev = None
    /\ list.tail # None => heap[list.tail].next = None

\* C16 witness: pop or pop_front has just removed a node from a list of at least
\* three, so that the new end had a neighbour on either side.
C16_Witness ==
    /\ Len(calls) >= 4
    /\ calls[Len(calls)].op \in {"pop", "pop_front"}
    /\ calls[Len(calls)].ret.tag = "some"
    /\ list.head # None /\ list.tail # None /\ list.head # list.tail

\* C14: a node's payload never changes once the node exists: no call alters the
\* data of an existing node, so every handle returned so far by pop or pop_front,
\* and the one returned by this call, keeps denoting the value that was pushed.
C14_PayloadFrozen ==
    [][/\ Len(heap') >= Len(heap)
       /\ \A n \in 1..Len(heap) : heap'[n].data = heap[n].data
       /\ \A j \in 1..Len(calls) :
             calls[j].ret.tag = "some" =>
                 Deref(heap', calls[j].ret.h) = Deref(heap, calls[j].ret.h)
       /\ Called("push") => Deref(heap', Len(heap')) = calls'[Len(calls')].arg
       /\ Called("push_front") => Deref(heap', Len(heap')) = calls'[Len(calls')].arg]_vars

\* C14 witness: a handle was returned by a removal, and an insertion and an
\* iteration step came after it.
C14_Witness ==
    /\ Len(calls) >= 4
    /\ calls[Len(calls) - 1].ret.tag = "some"
    /\ calls[Len(calls)].op \in {"push", "push_front"}
    /\ ret.op = "next" /\ ret.tag = "some"

\* This step is a call of iter: the container is kept and a new iterator made.
CalledIter == ret'.op = "iter" /\ Len(calls') = Len(calls) /\ it'.live

\* C18: iteration is read-only: iter() and every next() leave head, tail, len and
\* the prev and next links of every node as they were.
C18_IterationReadOnly ==
    [][(CalledIter \/ CalledNext) => (list' = list /\ heap' = heap)]_vars

\* C18 witness: next() has just yielded an element that is not the first of a
\* container of at least two elements.
C18_Witness ==
    /\ ret.op = "next" /\ ret.tag = "some"
    /\ ret.h # list.head
    /\ list.len >= 2
    /\ ~panicked

\* C19: mutation is local to one end: on a non-empty container push leaves head
\* and push_front leaves tail; on a container of two or more elements pop leaves
\* head and pop_front leaves tail; on an empty container push and push_front set
\* head and tail to the same new node, whose prev and next are None.
C19_EndLocal ==
    [][/\ (Called("push") /\ ~is_empty(list)) => list'.head = list.head
       /\ (Called("push_front") /\ ~is_empty(list)) => list'.tail = list.tail
       /\ (Called("pop") /\ len(list) >= 2) => list'.head = list.head
       /\ (Called("pop_front") /\ len(list) >= 2) => list'.tail = list.tail
       /\ ((Called("push") \/ Called("push_front")) /\ is_empty(list)) =>
             /\ list'.head = Len(heap') /\ list'.tail = Len(heap')
             /\ Len(heap') = Len(heap) + 1
             /\ heap'[Len(heap')].prev = None
             /\ heap'[Len(heap')].next = None]_vars

\* C19 witness: push and push_front have acted on an empty or a non-empty
\* container and a removal has acted on two or more elements.
C19_Witness ==
    /\ Len(calls) >= 4
    /\ \E j \in 2..Len(calls) : calls[j].op = "push"
    /\ \E j \in 1..Len(calls) : calls[j].op = "push_front"
    /\ \E j \in 1..Len(calls) : calls[j].op \in {"pop", "pop_front"} /\ calls[j].ret.tag = "some"

\* C20: the counter never underflows: len is never below 0, the decrement of pop
\* and pop_front runs only with len >= 1, every push and push_front adds exactly 1
\* and every pop and pop_front that returns Some subtracts exactly 1.
\* (len is a usize: a decrement at 0 would wrap or panic; here it would go below 0.)
C20_NoUnderflow ==
    /\ [](list.len >= 0)
    /\ [][/\ (Called("push") \/ Called("push_front")) => list'.len = list.len + 1
          /\ ((Called("pop") \/ Called("pop_front")) /\ ret'.tag = "some") =>
                (list.len >= 1 /\ list'.len = list.len - 1)
          /\ ((Called("pop") \/ Called("pop_front")) /\ ret'.tag # "some") =>
                list'.len = list.len]_vars

\* C20 witness: after two insertions a removal has brought the counter down to 1.
C20_Witness ==
    /\ Len(calls) = 3
    /\ calls[3].ret.tag = "some"
    /\ list.len = 1

\* This step is a call of into_iter.
CalledIntoIter == ret'.op = "into_iter" /\ owned /\ ~owned'

\* C12: consuming iteration yields every element in head-to-tail order although
\* the container is dropped when the iterator is made: into_iter leaves an iterator
\* that is to yield exactly the elements of the container, in order; every node
\* not yet visited stays alive while the container is gone; and each next() yields
\* the first of the elements still to come and leaves the rest.
C12_IntoIterYieldsAll ==
    /\ [](( ~owned /\ it.live) =>
            \A k \in 1..Len(Remaining(it, heap)) :
                Remaining(it, heap)[k] \in Alive(list, owned, it, heap))
    /\ [][/\ CalledIntoIter =>
                /\ Remaining(it', heap') = Collect(list, heap)
                /\ Len(Remaining(it', heap')) = len(list)
          /\ (CalledNext /\ ~owned /\ Remaining(it, heap) # <<>>) =>
                /\ ret' = RetSome("next", Head(Remaining(it, heap)))
                /\ Remaining(it', heap') = Tail(Remaining(it, heap))]_vars

\* C12 witness: the container of three elements was consumed by into_iter and
\* the iterator has yielded the first two of them; the third is still to come.
C12_Witness ==
    /\ ~owned /\ it.live
    /\ list.len = 3
    /\ ret = RetSome("next", heap[list.head].next)
    /\ it.cursor = list.tail
    /\ list.tail # list.head

\* C13: no leak: once the container has been dropped with no iterator
\* outstanding, every node it held has been freed, however many there were.
C13_NoLeak == (~owned /\ ~it.live) => Alive(list, owned, it, heap) = {}

\* C17: the node removed by pop or pop_front is detached: as far as it outlives
\* the call (an iterator's cursor is on it), its prev and next links are None, so
\* that an iterator on it yields that node and nothing of the remaining chain.
C17_RemovedDetached ==
    [][((Called("pop") \/ Called("pop_front")) /\ ret'.tag = "some"
            /\ ret'.h \in Alive(list', owned', it', heap')) =>
          /\ heap'[ret'.h].prev = None
          /\ heap'[ret'.h].next = None
          /\ (it'.cursor = ret'.h => Remaining(it', heap') = <<ret'.h>>)]_vars

====
